---- MODULE Spec2Model ----
(***************************************************************************)
(* A model of the email MCP server (src/src/email_mcp): the message body   *)
(* extraction of email_service.fetch_unread_emails, the threaded reply     *)
(* construction of email_service.create_draft_reply, the header lookup     *)
(* they share, and the debug_email_filtering tool of handlers.py.          *)
(*                                                                         *)
(* Representation.                                                         *)
(*  - A Python dict is a record; "key in dict" is  key \in DOMAIN dict.    *)
(*  - Header names and values, subjects and addresses are sequences of     *)
(*    one-character strings, so that lower(), startswith(), strip(),       *)
(*    split() and join() are computed character by character.              *)
(*  - The "data" of a message part is the sequence of bytes its base64url  *)
(*    text encodes; a decoded body is a sequence of Unicode code points.   *)
(***************************************************************************)
EXTENDS Integers, Sequences, FiniteSets, TLC

VARIABLES
    op,         \* the operation the server is asked to run
    unread,     \* Gmail backend: the unread messages, in full
    thread,     \* Gmail backend: the thread record threads().get returns
    analysed,   \* the unread emails debug_email_filtering analyses
    status,     \* "called" | "returned" | "raised"
    result,     \* the value returned to the caller, or the error raised
    drafts      \* Gmail backend: the bodies received by drafts().create

vars == <<op, unread, thread, analysed, status, result, drafts>>

(***************************************************************************)
(* Bounds of the model.                                                    *)
(***************************************************************************)
\* The largest number of parts (nodes) of a message payload tree.
MaxNodes == 4

\* The empty dict {} (a function with an empty domain).
EmptyDict == <<>>

(***************************************************************************)
(* dict.get(key, default)                                                  *)
(***************************************************************************)
Get(dict, key, default) ==
    IF key \in DOMAIN dict THEN dict[key] ELSE default

(***************************************************************************)
(* bytes.decode("utf-8", errors="ignore"): well-formed sequences become    *)
(* code points, every byte that is not part of one is dropped.  One- and   *)
(* two-byte sequences are decoded; the byte alphabet of the model holds no *)
(* lead byte of a longer sequence.                                         *)
(***************************************************************************)
IsAscii(b) == b < 128
IsLead2(b) == b >= 194 /\ b <= 223
IsCont(b) == b >= 128 /\ b <= 191

RECURSIVE Utf8DecodeFrom(_, _)
Utf8DecodeFrom(bytes, i) ==
    IF i > Len(bytes) THEN <<>>
    ELSE IF IsAscii(bytes[i]) THEN <<bytes[i]>> \o Utf8DecodeFrom(bytes, i + 1)
    ELSE IF IsLead2(bytes[i]) /\ i < Len(bytes) /\ IsCont(bytes[i + 1])
         THEN <<(bytes[i] - 192) * 64 + (bytes[i + 1] - 128)>>
                  \o Utf8DecodeFrom(bytes, i + 2)
    ELSE Utf8DecodeFrom(bytes, i + 1)

Utf8DecodeIgnore(bytes) == Utf8DecodeFrom(bytes, 1)

(***************************************************************************)
(* _extract_body_from_payload.  The two loops over payload["parts"] are    *)
(* FirstPass and SecondPass, each from part i on.                          *)
(***************************************************************************)
RECURSIVE ExtractBody(_), FirstPass(_, _), SecondPass(_, _)

ExtractLeafHtmlMutant(payload) ==
    IF "body" \in DOMAIN payload /\ "data" \in DOMAIN payload.body
       /\ Get(payload, "mimeType", "") \in {"text/plain", "text/html"}
    THEN Utf8DecodeIgnore(payload.body.data)
    ELSE IF "parts" \in DOMAIN payload
    THEN LET plain == FirstPass(payload.parts, 1)
         IN  IF plain # <<>> THEN plain ELSE SecondPass(payload.parts, 1)
    ELSE <<>>

ExtractInOrderMutant(payload) ==
    IF "body" \in DOMAIN payload /\ "data" \in DOMAIN payload.body
       /\ Get(payload, "mimeType", "") = "text/plain"
    THEN Utf8DecodeIgnore(payload.body.data)
    ELSE IF "parts" \in DOMAIN payload
    THEN SecondPass(payload.parts, 1)
    ELSE <<>>

ExtractBody(payload) ==
    IF "body" \in DOMAIN payload /\ "data" \in DOMAIN payload.body
       /\ Get(payload, "mimeType", "") = "text/plain"
    THEN Utf8DecodeIgnore(payload.body.data)
    ELSE IF "parts" \in DOMAIN payload
    THEN LET plain == FirstPass(payload.parts, 1)
         IN  IF plain # <<>> THEN plain ELSE SecondPass(payload.parts, 1)
    ELSE <<>>

FirstPass(parts, i) ==
    IF i > Len(parts) THEN <<>>
    ELSE IF Get(parts[i], "mimeType", "") = "text/plain"
            /\ ExtractBody(parts[i]) # <<>>
         THEN ExtractBody(parts[i])
    ELSE FirstPass(parts, i + 1)

SecondPassAnyDataMutant(parts, i) ==
    IF i > Len(parts) THEN <<>>
    ELSE IF "data" \in DOMAIN parts[i].body
            /\ Utf8DecodeIgnore(parts[i].body.data) # <<>>
         THEN Utf8DecodeIgnore(parts[i].body.data)
    ELSE IF ExtractBody(parts[i]) # <<>> THEN ExtractBody(parts[i])
    ELSE SecondPass(parts, i + 1)

SecondPass(parts, i) ==
    IF i > Len(parts) THEN <<>>
    ELSE IF ExtractBody(parts[i]) # <<>> THEN ExtractBody(parts[i])
    ELSE SecondPass(parts, i + 1)

(***************************************************************************)
(* _get_message_body: the extracted body, or the snippet when it is empty. *)
(***************************************************************************)
GetMessageBody(message) ==
    LET body == ExtractBody(Get(message, "payload", EmptyDict))
    IN  IF body # <<>> THEN body ELSE Get(message, "snippet", <<>>)

(***************************************************************************)
(* The payload trees the backend may return.  A leaf is a text/plain or    *)
(* text/html part whose body holds data or, as for an attachment or an     *)
(* empty part, none; a composite is a multipart part whose body holds no   *)
(* data.  PlainData has an empty body, ASCII text, text with a two-byte    *)
(* character ("b\u00e9") and a body no byte of which is valid UTF-8.       *)
(***************************************************************************)
PlainData == {<<>>, <<97>>, <<98, 195, 169>>, <<255, 195>>}
HtmlData == {<<104>>}

Leaf(mime, data) ==
    [mimeType |-> mime, body |-> [size |-> Len(data), data |-> data]]
BodylessLeaf(mime) ==
    [mimeType |-> mime, body |-> [size |-> 0]]
Multipart(parts) ==
    [mimeType |-> "multipart/alternative", body |-> [size |-> 0], parts |-> parts]

Leaves ==
    {Leaf("text/plain", d) : d \in PlainData}
        \cup {Leaf("text/html", d) : d \in HtmlData}
        \cup {BodylessLeaf("text/plain"), BodylessLeaf("text/html")}

RECURSIVE TreesOfSize(_), Forests(_)
\* The payload trees of exactly n nodes.
TreesOfSize(n) ==
    IF n = 1 THEN Leaves ELSE {Multipart(f) : f \in Forests(n - 1)}
\* The non-empty sequences of payload trees of k nodes in all.
Forests(k) ==
    UNION {{<<t>> \o f : t \in TreesOfSize(j),
                         f \in (IF j = k THEN {<<>>} ELSE Forests(k - j))}
           : j \in 1..k}

Payloads == UNION {TreesOfSize(n) : n \in 1..MaxNodes}

(***************************************************************************)
(* Strings.                                                                *)
(***************************************************************************)
\* The empty string "".
EmptyStr == <<>>

\* "From"
sFrom == <<"F", "r", "o", "m">>
\* "Subject"
sSubject == <<"S", "u", "b", "j", "e", "c", "t">>
\* "Date"
sDate == <<"D", "a", "t", "e">>
\* "Message-ID"
sMessageID == <<"M", "e", "s", "s", "a", "g", "e", "-", "I", "D">>
\* "References"
sReferences == <<"R", "e", "f", "e", "r", "e", "n", "c", "e", "s">>
\* "re:"
sRePrefix == <<"r", "e", ":">>
\* "Re: "
sReSpace == <<"R", "e", ":", " ">>
\* " "
sSpace == <<" ">>

(***************************************************************************)
(* str.lower(), str.startswith(), str.strip(), str.split(), str.join().    *)
(***************************************************************************)
UpperCase == <<"A", "B", "C", "D", "E", "F", "G", "H", "I", "J", "K", "L", "M",
               "N", "O", "P", "Q", "R", "S", "T", "U", "V", "W", "X", "Y", "Z">>
LowerCase == <<"a", "b", "c", "d", "e", "f", "g", "h", "i", "j", "k", "l", "m",
               "n", "o", "p", "q", "r", "s", "t", "u", "v", "w", "x", "y", "z">>

UpperCaseLetters == {UpperCase[i] : i \in DOMAIN UpperCase}
LowerOf ==
    [c \in UpperCaseLetters |->
        LowerCase[CHOOSE i \in DOMAIN UpperCase : UpperCase[i] = c]]

LowerChar(c) == IF c \in UpperCaseLetters THEN LowerOf[c] ELSE c

Lower(s) == [i \in 1..Len(s) |-> LowerChar(s[i])]

StartsWith(s, prefix) ==
    Len(s) >= Len(prefix) /\ SubSeq(s, 1, Len(prefix)) = prefix

IsSpace(c) == c \in {" ", "\t", "\n", "\r"}

RECURSIVE LStrip(_), RStrip(_)
LStrip(s) ==
    IF s # <<>> /\ IsSpace(Head(s)) THEN LStrip(Tail(s)) ELSE s
RStrip(s) ==
    IF s # <<>> /\ IsSpace(s[Len(s)]) THEN RStrip(SubSeq(s, 1, Len(s) - 1)) ELSE s
Strip(s) == RStrip(LStrip(s))

\* The words of s from character i on; word is the word being read.
RECURSIVE SplitFrom(_, _, _)
SplitFrom(s, i, word) ==
    IF i > Len(s) THEN (IF word = <<>> THEN <<>> ELSE <<word>>)
    ELSE IF IsSpace(s[i])
         THEN (IF word = <<>> THEN <<>> ELSE <<word>>) \o SplitFrom(s, i + 1, <<>>)
    ELSE SplitFrom(s, i + 1, Append(word, s[i]))
Split(s) == SplitFrom(s, 1, <<>>)

RECURSIVE Join(_, _)
Join(sep, list) ==
    IF list = <<>> THEN EmptyStr
    ELSE IF Len(list) = 1 THEN list[1]
    ELSE list[1] \o sep \o Join(sep, Tail(list))

\* x in list
InList(x, list) == \E i \in DOMAIN list : list[i] = x

(***************************************************************************)
(* _get_header: the value of the first header whose name matches, without  *)
(* regard to case; "" when none does.                                      *)
(***************************************************************************)
RECURSIVE GetHeaderFrom(_, _, _)
GetHeaderFrom(headers, name, i) ==
    IF i > Len(headers) THEN EmptyStr
    ELSE IF Lower(Get(headers[i], "name", EmptyStr)) = Lower(name)
         THEN Get(headers[i], "value", EmptyStr)
    ELSE GetHeaderFrom(headers, name, i + 1)

RECURSIVE GetHeaderLastFrom(_, _, _)
GetHeaderLastFrom(headers, name, i) ==
    IF i < 1 THEN EmptyStr
    ELSE IF Lower(Get(headers[i], "name", EmptyStr)) = Lower(name)
         THEN Get(headers[i], "value", EmptyStr)
    ELSE GetHeaderLastFrom(headers, name, i - 1)

GetHeaderLastMutant(headers, name) ==
    GetHeaderLastFrom(headers, name, Len(headers))

GetHeader(headers, name) == GetHeaderFrom(headers, name, 1)

(***************************************************************************)
(* create_draft_reply, lines 104-114: the References value of the reply.   *)
(***************************************************************************)
BuildReferencesAlwaysAppendMutant(references, message_id) ==
    IF references # EmptyStr
    THEN LET references_list == Split(Strip(references))
         IN  Join(sSpace, IF message_id # EmptyStr
                          THEN Append(references_list, message_id)
                          ELSE references_list)
    ELSE message_id

BuildReferencesKeepRawMutant(references, message_id) ==
    IF references # EmptyStr
    THEN IF message_id # EmptyStr /\ ~InList(message_id, Split(Strip(references)))
         THEN references \o sSpace \o message_id
         ELSE references
    ELSE message_id

BuildReferences(references, message_id) ==
    IF references # EmptyStr
    THEN LET references_list == Split(Strip(references))
         IN  Join(sSpace, IF message_id # EmptyStr
                             /\ ~InList(message_id, references_list)
                          THEN Append(references_list, message_id)
                          ELSE references_list)
    ELSE IF message_id # EmptyStr THEN message_id ELSE EmptyStr

(***************************************************************************)
(* create_draft_reply, lines 116-118: the Subject of the reply.            *)
(***************************************************************************)
ReplySubjectCaseSensitiveMutant(subject) ==
    IF subject # EmptyStr /\ ~StartsWith(subject, sReSpace)
    THEN sReSpace \o subject
    ELSE subject

ReplySubject(subject) ==
    IF subject # EmptyStr /\ ~StartsWith(Lower(subject), sRePrefix)
    THEN sReSpace \o subject
    ELSE subject

(***************************************************************************)
(* create_draft_reply, lines 120-129: the MIME message of the reply.       *)
(* MIMEText sets the first three headers; the code sets To and Subject     *)
(* always, In-Reply-To and References only when their value is not empty.  *)
(***************************************************************************)
Header(name, value) == [name |-> name, value |-> value]

MimeTextHeaders ==
    <<Header("Content-Type", <<"text/plain; charset=\"us-ascii\"">>),
      Header("MIME-Version", <<"1.0">>),
      Header("Content-Transfer-Encoding", <<"7bit">>)>>

ReplyMessageAlwaysThreadedMutant(headers, reply_body) ==
    LET message_id == GetHeader(headers, sMessageID)
    IN  [headers |-> MimeTextHeaders
            \o <<Header("To", GetHeader(headers, sFrom)),
                 Header("Subject", ReplySubject(GetHeader(headers, sSubject))),
                 Header("In-Reply-To", message_id),
                 Header("References",
                        BuildReferences(GetHeader(headers, sReferences), message_id))>>,
         payload |-> reply_body]

ReplyMessage(headers, reply_body) ==
    LET to_addr == GetHeader(headers, sFrom)
        subject == GetHeader(headers, sSubject)
        message_id == GetHeader(headers, sMessageID)
        references == GetHeader(headers, sReferences)
        new_references == BuildReferences(references, message_id)
    IN  [headers |-> MimeTextHeaders
            \o <<Header("To", to_addr),
                 Header("Subject", ReplySubject(subject))>>
            \o (IF message_id # EmptyStr
                THEN <<Header("In-Reply-To", message_id)>> ELSE <<>>)
            \o (IF new_references # EmptyStr
                THEN <<Header("References", new_references)>> ELSE <<>>),
         payload |-> reply_body]

(***************************************************************************)
(* The threads the backend may return for create_draft_reply.  The headers *)
(* of the last message are a Date header followed by zero, one or two      *)
(* From, Subject, Message-ID and References headers, their names spelled   *)
(* as the sender spelled them.  A Message-ID is a single token, as RFC     *)
(* 5322 requires.                                                          *)
(***************************************************************************)
\* "from"
sFromLower == <<"f", "r", "o", "m">>
\* "subject"
sSubjectLower == <<"s", "u", "b", "j", "e", "c", "t">>
\* "message-id"
sMessageIDLower == <<"m", "e", "s", "s", "a", "g", "e", "-", "i", "d">>
\* "references"
sReferencesLower == <<"r", "e", "f", "e", "r", "e", "n", "c", "e", "s">>
\* "FROM"
sFromUpper == <<"F", "R", "O", "M">>
\* "SUBJECT"
sSubjectUpper == <<"S", "U", "B", "J", "E", "C", "T">>
\* "Message-Id"
sMessageIdMixed == <<"M", "e", "s", "s", "a", "g", "e", "-", "I", "d">>
\* "REFERENCES"
sReferencesUpper == <<"R", "E", "F", "E", "R", "E", "N", "C", "E", "S">>
\* "jane.doe@company.com"
vSender == <<"j", "a", "n", "e", ".", "d", "o", "e", "@", "c", "o", "m", "p", "a", "n", "y", ".", "c", "o", "m">>
\* "Mon, 2 Nov 2026"
vDate == <<"M", "o", "n", ",", " ", "2", " ", "N", "o", "v", " ", "2", "0", "2", "6">>
\* "Project Update"
vProjectUpdate == <<"P", "r", "o", "j", "e", "c", "t", " ", "U", "p", "d", "a", "t", "e">>
\* "Re: Project Update"
vReProjectUpdate == <<"R", "e", ":", " ", "P", "r", "o", "j", "e", "c", "t", " ", "U", "p", "d", "a", "t", "e">>
\* "RE:hi"
vUpperRe == <<"R", "E", ":", "h", "i">>
\* "Re"
vRe == <<"R", "e">>
\* "re: other"
vReOther == <<"r", "e", ":", " ", "o", "t", "h", "e", "r">>
\* "<a@x>"
vIdA == <<"<", "a", "@", "x", ">">>
\* "<b@x>"
vIdB == <<"<", "b", "@", "x", ">">>
\* "<old@x>"
vIdOld == <<"<", "o", "l", "d", "@", "x", ">">>
\* " "
vRefsBlank == <<" ">>
\* "<z@x>"
vRefsZ == <<"<", "z", "@", "x", ">">>
\* "<z@x> <a@x>"
vRefsZA == <<"<", "z", "@", "x", ">", " ", "<", "a", "@", "x", ">">>
\* "<a@x> <z@x>"
vRefsAZ == <<"<", "a", "@", "x", ">", " ", "<", "z", "@", "x", ">">>
\* "<a@x>  <a@x>"
vRefsAA == <<"<", "a", "@", "x", ">", " ", " ", "<", "a", "@", "x", ">">>
\* "\t<z@x>\n <y@x> "
vRefsSpaced == <<"\t", "<", "z", "@", "x", ">", "\n", " ", "<", "y", "@", "x", ">", " ">>
\* "<A@x> <z@x>"
vRefsUpperA == <<"<", "A", "@", "x", ">", " ", "<", "z", "@", "x", ">">>
\* "<a@x>.1 <z@x>"
vRefsPrefixA == <<"<", "a", "@", "x", ">", ".", "1", " ", "<", "z", "@", "x", ">">>

\* The spellings of the names From, Subject, Message-ID, References.
Spellings ==
    {<<sFrom, sSubject, sMessageID, sReferences>>,
     <<sFromLower, sSubjectLower, sMessageIDLower, sReferencesLower>>,
     <<sFromUpper, sSubjectUpper, sMessageIdMixed, sReferencesUpper>>}

\* The values of the headers of one name, in the order they appear.
FromValues == {<<>>, <<vSender>>}
SubjectValues ==
    {<<>>, <<EmptyStr>>, <<vProjectUpdate>>, <<vReProjectUpdate>>, <<vUpperRe>>,
     <<vRe>>, <<vProjectUpdate, vReOther>>}
MessageIDValues == {<<>>, <<EmptyStr>>, <<vIdA>>, <<vIdB>>, <<vIdA, vIdB>>}
ReferencesValues ==
    {<<>>, <<EmptyStr>>, <<vRefsBlank>>, <<vRefsZ>>, <<vRefsZA>>, <<vRefsAZ>>,
     <<vRefsAA>>, <<vRefsSpaced>>, <<vRefsUpperA>>, <<vRefsPrefixA>>}

HeadersNamed(name, values) == [i \in 1..Len(values) |-> Header(name, values[i])]

HeaderLists ==
    {<<Header(sDate, vDate)>>
        \o HeadersNamed(sp[1], f) \o HeadersNamed(sp[2], s)
        \o HeadersNamed(sp[3], m) \o HeadersNamed(sp[4], r) :
        sp \in Spellings, f \in FromValues, s \in SubjectValues,
        m \in MessageIDValues, r \in ReferencesValues}

ThreadMessage(id, headers) ==
    [id |-> id, threadId |-> "t1",
     payload |-> [mimeType |-> "text/plain", headers |-> headers]]

\* An earlier message of the thread, which is not the one replied to.
OlderMessage ==
    ThreadMessage("m1", <<Header(sFrom, vSender), Header(sSubject, vRe),
                          Header(sMessageID, vIdOld)>>)

\* threads().get without a "messages" key.
NoMessagesThread == [id |-> "t1"]

Threads ==
    {NoMessagesThread, [id |-> "t1", messages |-> <<>>]}
        \cup {[id |-> "t1", messages |-> <<ThreadMessage("m2", h)>>] :
                h \in HeaderLists}
        \cup {[id |-> "t1", messages |-> <<OlderMessage, ThreadMessage("m2", h)>>] :
                h \in HeaderLists}
        \cup {[id |-> "t1", messages |-> <<[id |-> "m2", threadId |-> "t1"]>>]}

(***************************************************************************)
(* The unread messages the backend may hold for fetch_unread_emails: none, *)
(* or one message with any payload tree and an empty or non-empty snippet. *)
(***************************************************************************)
Snippets == {<<>>, <<115, 110>>}

UnreadMessage(payload, snippet) ==
    [id |-> "m1", threadId |-> "t1", snippet |-> snippet,
     payload |-> payload @@ [headers |-> <<Header(sSubjectLower, vProjectUpdate),
                                           Header(sFrom, vSender),
                                           Header(sDate, vDate)>>]]

Mailboxes ==
    {<<>>} \cup {<<UnreadMessage(p, s)>> : p \in Payloads, s \in Snippets}

(***************************************************************************)
(* fetch_unread_emails.  ListUnread and GetMessage are the backend's       *)
(* messages().list and messages().get over the unread messages it holds.   *)
(***************************************************************************)
DefaultLimit == 10

ListUnread(mailbox, limit) ==
    IF mailbox = <<>> THEN [resultSizeEstimate |-> 0]
    ELSE [messages |->
            [i \in 1..(IF Len(mailbox) < limit THEN Len(mailbox) ELSE limit) |->
                [id |-> mailbox[i].id, threadId |-> mailbox[i].threadId]],
          resultSizeEstimate |-> Len(mailbox)]

GetMessage(mailbox, id) ==
    mailbox[CHOOSE i \in DOMAIN mailbox : mailbox[i].id = id]

\* Lines 48-64: the record of one fetched message.
EmailInfo(message) ==
    LET headers == Get(Get(message, "payload", EmptyDict), "headers", <<>>)
    IN  [id |-> message.id,
         thread_id |-> message.threadId,
         from |-> GetHeader(headers, sFrom),
         subject |-> GetHeader(headers, sSubject),
         date |-> GetHeader(headers, sDate),
         body |-> GetMessageBody(message)]

FetchUnreadEmailsResult(mailbox, limit) ==
    LET messages == Get(ListUnread(mailbox, limit), "messages", <<>>)
    IN  [i \in 1..Len(messages) |-> EmailInfo(GetMessage(mailbox, messages[i].id))]

(***************************************************************************)
(* The promotional-sender classifier behind debug_email_filtering.  The    *)
(* function email_service.debug_email_filtering is called by handlers.py   *)
(* and is not part of the sources; it is modelled from the specification:  *)
(* every pattern of the vocabulary that is a substring of the lower-cased  *)
(* address, in vocabulary order.                                           *)
(***************************************************************************)
\* "noreply"
pNoreply == <<"n", "o", "r", "e", "p", "l", "y">>
\* "no-reply"
pNoReplyDash == <<"n", "o", "-", "r", "e", "p", "l", "y">>
\* "donotreply"
pDonotreply == <<"d", "o", "n", "o", "t", "r", "e", "p", "l", "y">>
\* "newsletter"
pNewsletter == <<"n", "e", "w", "s", "l", "e", "t", "t", "e", "r">>
\* "marketing"
pMarketing == <<"m", "a", "r", "k", "e", "t", "i", "n", "g">>
\* "promo"
pPromo == <<"p", "r", "o", "m", "o">>
\* "automated"
pAutomated == <<"a", "u", "t", "o", "m", "a", "t", "e", "d">>
\* "notification"
pNotification == <<"n", "o", "t", "i", "f", "i", "c", "a", "t", "i", "o", "n">>
\* "alert"
pAlert == <<"a", "l", "e", "r", "t">>
\* "support"
pSupport == <<"s", "u", "p", "p", "o", "r", "t">>

Vocabulary == <<pNoreply, pNoReplyDash, pDonotreply, pNewsletter, pMarketing, pPromo, pAutomated, pNotification, pAlert, pSupport>>

IsSubstring(pattern, s) ==
    \E i \in 1..(Len(s) - Len(pattern) + 1) :
        SubSeq(s, i, i + Len(pattern) - 1) = pattern

RECURSIVE MatchesFrom(_, _)
MatchesFrom(address, k) ==
    IF k > Len(Vocabulary) THEN <<>>
    ELSE (IF IsSubstring(Vocabulary[k], address) THEN <<Vocabulary[k]>> ELSE <<>>)
            \o MatchesFrom(address, k + 1)

Classify(fromAddress) ==
    LET matches == MatchesFrom(Lower(fromAddress), 1)
    IN  [is_promotional |-> matches # <<>>, matched_patterns |-> matches]

DebugEmailFiltering(emails, limit) ==
    [i \in 1..(IF Len(emails) < limit THEN Len(emails) ELSE limit) |->
        [id |-> emails[i].id, from |-> emails[i].from,
         subject |-> emails[i].subject] @@ Classify(emails[i].from)]

(***************************************************************************)
(* handle_call_tool, branch "debug_email_filtering": the text returned, as  *)
(* its sequence of lines; a line is <<label, value>>.                      *)
(***************************************************************************)
DebugDefaultLimit == 5

sCommaSpace == <<",", " ">>

DebugLines(email) ==
    <<<<"Email ID", email.id>>,
      <<"From", email.from>>,
      <<"Subject", email.subject>>,
      <<"Is Promotional", email.is_promotional>>>>
        \o (IF email.matched_patterns # <<>>
            THEN <<<<"Matched Patterns", Join(sCommaSpace, email.matched_patterns)>>>>
            ELSE <<>>)
        \o <<<<"-", 50>>>>

RECURSIVE DebugLinesOfAll(_)
DebugLinesOfAll(debug_info) ==
    IF debug_info = <<>> THEN <<>>
    ELSE DebugLines(Head(debug_info)) \o DebugLinesOfAll(Tail(debug_info))

FormatDebugFirstPatternMutant(debug_info) ==
    IF debug_info = <<>> THEN <<<<"No unread emails found to analyze">>>>
    ELSE <<<<"Email Filtering Analysis", Len(debug_info)>>>>
            \o DebugLinesOfAll(
                [i \in DOMAIN debug_info |->
                    [debug_info[i] EXCEPT !.matched_patterns =
                        IF @ = <<>> THEN @ ELSE <<@[1]>>]])

FormatDebugInfo(debug_info) ==
    IF debug_info = <<>> THEN <<<<"No unread emails found to analyze">>>>
    ELSE <<<<"Email Filtering Analysis", Len(debug_info)>>>>
            \o DebugLinesOfAll(debug_info)

\* The sender addresses of the emails analysed.
\* "newsletter"
aNewsletter == <<"n", "e", "w", "s", "l", "e", "t", "t", "e", "r">>
\* "jane.doe"
aJaneDoe == <<"j", "a", "n", "e", ".", "d", "o", "e">>
\* "NoReply"
aNoReplyCaps == <<"N", "o", "R", "e", "p", "l", "y">>
\* "support-alert"
aSupportAlert == <<"s", "u", "p", "p", "o", "r", "t", "-", "a", "l", "e", "r", "t">>
\* "promo.newsletter"
aPromoNews == <<"p", "r", "o", "m", "o", ".", "n", "e", "w", "s", "l", "e", "t", "t", "e", "r">>
\* "billing"
aBilling == <<"b", "i", "l", "l", "i", "n", "g">>
\* "@shop.example.com"
dShop == <<"@", "s", "h", "o", "p", ".", "e", "x", "a", "m", "p", "l", "e", ".", "c", "o", "m">>
\* "@company.com"
dCompany == <<"@", "c", "o", "m", "p", "a", "n", "y", ".", "c", "o", "m">>
\* "@Marketing.example.io"
dMarketing == <<"@", "M", "a", "r", "k", "e", "t", "i", "n", "g", ".", "e", "x", "a", "m", "p", "l", "e", ".", "i", "o">>

Addresses ==
    {local \o domain :
        local \in {aNewsletter, aJaneDoe, aNoReplyCaps, aSupportAlert, aPromoNews, aBilling},
        domain \in {dShop, dCompany, dMarketing}}

AnalysedEmail(id, address) ==
    [id |-> id, from |-> address, subject |-> vProjectUpdate]

AnalysedEmails ==
    {<<>>} \cup {<<AnalysedEmail("m1", a)>> : a \in Addresses}
           \cup {<<AnalysedEmail("m1", a), AnalysedEmail("m2", b)>> :
                    a \in Addresses, b \in Addresses}

(***************************************************************************)
(* The state machine.  A run is one call: Init is the server asked to run  *)
(* an operation against a backend holding the data the operation reads;    *)
(* the operation's action computes what it returns or raises.              *)
(***************************************************************************)
ReplyBodies == {"Thanks."}

Init ==
    /\ status = "called"
    /\ result = <<>>
    /\ drafts = <<>>
    /\ \/ /\ op = "fetch_unread_emails"
          /\ unread \in Mailboxes
          /\ thread = NoMessagesThread
          /\ analysed = <<>>
       \/ /\ op = "create_draft_reply"
          /\ unread = <<>>
          /\ thread \in Threads
          /\ analysed = <<>>
       \/ /\ op = "debug_email_filtering"
          /\ unread = <<>>
          /\ thread = NoMessagesThread
          /\ analysed \in AnalysedEmails

\* fetch_unread_emails(limit), lines 24-68.
FetchUnreadEmails ==
    /\ op = "fetch_unread_emails"
    /\ status = "called"
    /\ result' = FetchUnreadEmailsResult(unread, DefaultLimit)
    /\ status' = "returned"
    /\ UNCHANGED <<op, unread, thread, analysed, drafts>>

\* The backend's drafts().create: what it answers for the next draft.
CreatedDraft(stored, draft_body) ==
    [id |-> <<"r", Len(stored) + 1>>,
     message |-> [id |-> <<"d", Len(stored) + 1>>,
                  threadId |-> draft_body.message.threadId]]

CreateDraftReplyDefaultingMutant ==
    /\ op = "create_draft_reply"
    /\ status = "called"
    /\ \E reply_body \in ReplyBodies :
        LET messages == Get(thread, "messages", <<>>)
            headers == IF messages = <<>> THEN <<>>
                       ELSE Get(Get(messages[Len(messages)], "payload", EmptyDict),
                                "headers", <<>>)
            draft_body == [message |-> [raw |-> ReplyMessage(headers, reply_body),
                                        threadId |-> thread.id]]
            draft == CreatedDraft(drafts, draft_body)
        IN  /\ drafts' = Append(drafts, draft_body)
            /\ result' = [draft_id |-> draft.id,
                          message_id |-> draft.message.id,
                          thread_id |-> draft.message.threadId]
            /\ status' = "returned"
    /\ UNCHANGED <<op, unread, thread, analysed>>

\* create_draft_reply(thread_id, reply_body), lines 84-151.
CreateDraftReply ==
    /\ op = "create_draft_reply"
    /\ status = "called"
    /\ \E reply_body \in ReplyBodies :
        LET thread_id == thread.id
            messages == Get(thread, "messages", <<>>)
        IN  IF messages = <<>>
            THEN /\ status' = "raised"
                 /\ result' = [error |-> "ValueError"]
                 /\ drafts' = drafts
            ELSE LET original_message == messages[Len(messages)]
                     headers == Get(Get(original_message, "payload", EmptyDict),
                                    "headers", <<>>)
                     draft_body ==
                         [message |-> [raw |-> ReplyMessage(headers, reply_body),
                                       threadId |-> thread_id]]
                     draft == CreatedDraft(drafts, draft_body)
                 IN  /\ drafts' = Append(drafts, draft_body)
                     /\ result' = [draft_id |-> draft.id,
                                   message_id |-> draft.message.id,
                                   thread_id |-> draft.message.threadId]
                     /\ status' = "returned"
    /\ UNCHANGED <<op, unread, thread, analysed>>

\* handle_call_tool("debug_email_filtering", {}), lines 130-150.
HandleDebugEmailFiltering ==
    /\ op = "debug_email_filtering"
    /\ status = "called"
    /\ result' = FormatDebugInfo(DebugEmailFiltering(analysed, DebugDefaultLimit))
    /\ status' = "returned"
    /\ UNCHANGED <<op, unread, thread, analysed, drafts>>

Next ==
    \/ FetchUnreadEmails
    \/ CreateDraftReply
    \/ HandleDebugEmailFiltering

Spec == Init /\ [][Next]_vars

(***************************************************************************)
(* Vocabulary of the properties.                                           *)
(***************************************************************************)
Min(S) == CHOOSE x \in S : \A y \in S : x <= y

\* fetch_unread_emails has returned the record of one message.
Fetched ==
    op = "fetch_unread_emails" /\ status = "returned" /\ unread # <<>>

\* The payload tree of the fetched message, and the body of its record.
FetchedPayload == unread[1].payload
FetchedBody == result[1].body

IsLeaf(part) == "parts" \notin DOMAIN part
HasData(part) == "body" \in DOMAIN part /\ "data" \in DOMAIN part.body

\* The nodes of a payload tree: the tree and every part below it.
RECURSIVE Nodes(_)
Nodes(part) ==
    {part} \cup (IF IsLeaf(part) THEN {}
                 ELSE UNION {Nodes(part.parts[i]) : i \in DOMAIN part.parts})

\* The leaves of a tree that have the given type.
LeavesOfType(tree, mime) ==
    {n \in Nodes(tree) : IsLeaf(n) /\ n.mimeType = mime}

\* The body bytes, and the decoded texts, of the leaves of a type that
\* hold data.
LeafData(tree, mime) ==
    {n.body.data : n \in {l \in LeavesOfType(tree, mime) : HasData(l)}}
LeafTexts(tree, mime) ==
    {Utf8DecodeIgnore(d) : d \in LeafData(tree, mime)}

\* The two-pass rule at a node with children: the result of the first
\* direct text/plain child that yields text, else of the first child of any
\* type that yields text, else the empty string.
TwoPassResult(node) ==
    LET parts == node.parts
        plain == {i \in DOMAIN parts :
                    parts[i].mimeType = "text/plain" /\ ExtractBody(parts[i]) # <<>>}
        any == {i \in DOMAIN parts : ExtractBody(parts[i]) # <<>>}
    IN  IF plain # {} THEN ExtractBody(parts[Min(plain)])
        ELSE IF any # {} THEN ExtractBody(parts[Min(any)])
        ELSE <<>>

AllLeavesHtml(tree) ==
    \A n \in Nodes(tree) : IsLeaf(n) => n.mimeType = "text/html"

C2_AsClaimed ==
    (Fetched /\ AllLeavesHtml(FetchedPayload)
        /\ \E d \in LeafData(FetchedPayload, "text/html") : d # <<>>)
        => /\ ExtractBody(FetchedPayload) # <<>>
           /\ ExtractBody(FetchedPayload) \in LeafTexts(FetchedPayload, "text/html")

(***************************************************************************)
(* C2, amended: when every leaf of the tree of the fetched message is      *)
(* text/html, the extracted body is the empty string, whatever the bodies  *)
(* of the leaves hold, and the record's body is the message's snippet.     *)
(***************************************************************************)
C2_HtmlOnlyYieldsEmpty ==
    (Fetched /\ AllLeavesHtml(FetchedPayload))
        => /\ ExtractBody(FetchedPayload) = <<>>
           /\ FetchedBody = unread[1].snippet

\* A multipart message whose leaves are all html, one with text, has been
\* fetched and the snippet returned as its body.
C2_Witness ==
    /\ Fetched
    /\ ~IsLeaf(FetchedPayload)
    /\ AllLeavesHtml(FetchedPayload)
    /\ <<104>> \in LeafData(FetchedPayload, "text/html")
    /\ unread[1].snippet # <<>>
    /\ FetchedBody = unread[1].snippet

(***************************************************************************)
(* C10: at every node with children of the fetched tree, the result is     *)
(* that of the first direct text/plain child with a non-empty result, if   *)
(* there is one; otherwise the first non-empty result of any child, in     *)
(* order; otherwise the empty string.                                      *)
(***************************************************************************)
C10_TwoPassPriority ==
    Fetched =>
        /\ \A n \in Nodes(FetchedPayload) :
              ~IsLeaf(n) => ExtractBody(n) = TwoPassResult(n)
        /\ ExtractBody(FetchedPayload) # <<>>
              => FetchedBody = ExtractBody(FetchedPayload)

\* The first child is a multipart that yields "a", the second a text/plain
\* leaf that yields "bé": the second one's text is the body returned.
C10_Witness ==
    /\ Fetched
    /\ ~IsLeaf(FetchedPayload)
    /\ Len(FetchedPayload.parts) = 2
    /\ ~IsLeaf(FetchedPayload.parts[1])
    /\ ExtractBody(FetchedPayload.parts[1]) = <<97>>
    /\ FetchedPayload.parts[2] = Leaf("text/plain", <<98, 195, 169>>)
    /\ FetchedBody = <<98, 233>>

(***************************************************************************)
(* Vocabulary of the properties of create_draft_reply.                     *)
(***************************************************************************)
\* create_draft_reply has returned: a draft was sent to the backend.
Replied == op = "create_draft_reply" /\ status = "returned"

\* The thread has a last message, whose headers these are.
HasLastMessage == Get(thread, "messages", <<>>) # <<>>
LastHeaders ==
    LET last == thread.messages[Len(thread.messages)]
    IN  IF "payload" \in DOMAIN last THEN last.payload.headers ELSE <<>>

\* The positions of the headers of a list that carry a name, whatever the
\* case, and the value of the first of them ("" when there is none).
Matching(headers, name) ==
    {i \in DOMAIN headers : Lower(headers[i].name) = Lower(name)}
FirstValue(headers, name) ==
    IF Matching(headers, name) = {} THEN EmptyStr
    ELSE headers[Min(Matching(headers, name))].value

\* The headers of the MIME message of the draft that carry a name, and the
\* value of the one there is ("" when there is none).
DraftHeaders(name) ==
    LET hs == drafts[Len(drafts)].message.raw.headers
    IN  SelectSeq(hs, LAMBDA h : h.name = name)
DraftValue(name) ==
    IF DraftHeaders(name) = <<>> THEN EmptyStr ELSE DraftHeaders(name)[1].value

\* The whitespace-separated tokens of a string, in order: its maximal runs
\* of characters that are not whitespace.
TokenStarts(s) ==
    {i \in DOMAIN s : ~IsSpace(s[i]) /\ (i = 1 \/ IsSpace(s[i - 1]))}
TokenEnd(s, i) ==
    Min({j \in i..Len(s) : j = Len(s) \/ IsSpace(s[j + 1])})
Tokens(s) ==
    LET starts == TokenStarts(s)
        start(k) == CHOOSE i \in starts : Cardinality({j \in starts : j < i}) = k - 1
    IN  [k \in 1..Cardinality(starts) |-> SubSeq(s, start(k), TokenEnd(s, start(k)))]

\* A string in which every whitespace character is one space between two
\* tokens.
SingleSpaced(s) ==
    \A i \in DOMAIN s :
        IsSpace(s[i]) => /\ s[i] = " "
                         /\ i > 1 /\ i < Len(s)
                         /\ ~IsSpace(s[i - 1]) /\ ~IsSpace(s[i + 1])

Occurrences(x, list) == Cardinality({i \in DOMAIN list : list[i] = x})

\* What the reply is built from: the Message-ID, References and Subject of
\* the last message of the thread.
OriginalMessageID == FirstValue(LastHeaders, sMessageID)
OriginalReferences == FirstValue(LastHeaders, sReferences)
OriginalSubject == FirstValue(LastHeaders, sSubject)

(***************************************************************************)
(* C3: the References value of the reply is the whitespace-separated       *)
(* tokens of the existing References, in their order, joined by single     *)
(* spaces, followed by the original Message-ID if and only if it is not    *)
(* empty and not one of those tokens; with no existing References it is    *)
(* the Message-ID.                                                         *)
(***************************************************************************)
ExpectedTokens ==
    Tokens(OriginalReferences)
        \o (IF OriginalMessageID # EmptyStr
               /\ ~InList(OriginalMessageID, Tokens(OriginalReferences))
            THEN <<OriginalMessageID>> ELSE <<>>)

C3_ReferencesChain ==
    Replied =>
        /\ Tokens(DraftValue("References")) = ExpectedTokens
        /\ SingleSpaced(DraftValue("References"))
        /\ SubSeq(Tokens(DraftValue("References")), 1,
                  Len(Tokens(OriginalReferences))) = Tokens(OriginalReferences)
        /\ OriginalReferences = EmptyStr
              => DraftValue("References") = OriginalMessageID

\* A reply to a message whose References hold two tokens between tabs,
\* newlines and spaces, and whose Message-ID is not one of them.
C3_Witness ==
    /\ Replied
    /\ OriginalReferences = vRefsSpaced
    /\ OriginalMessageID = vIdA
    /\ Len(Tokens(DraftValue("References"))) = 3
    /\ Tokens(DraftValue("References"))[3] = vIdA

HasRePrefix(s) ==
    /\ Len(s) >= 3
    /\ s[1] \in {"r", "R"}
    /\ s[2] \in {"e", "E"}
    /\ s[3] = ":"

C5_ReplySubject ==
    Replied =>
        /\ Len(DraftHeaders("Subject")) = 1
        /\ OriginalSubject = EmptyStr => DraftValue("Subject") = EmptyStr
        /\ HasRePrefix(OriginalSubject) => DraftValue("Subject") = OriginalSubject
        /\ (OriginalSubject # EmptyStr /\ ~HasRePrefix(OriginalSubject))
              => DraftValue("Subject") = <<"R", "e", ":", " ">> \o OriginalSubject
        /\ DraftValue("Subject") # EmptyStr => HasRePrefix(DraftValue("Subject"))

\* A reply to a message whose subject starts with "RE:" in capitals.
C5_Witness ==
    /\ Replied
    /\ OriginalSubject = vUpperRe
    /\ DraftValue("Subject") = vUpperRe

(***************************************************************************)
(* C6: when the thread fetched has no messages, create_draft_reply raises  *)
(* ValueError and the backend receives no draft; an error is raised in no  *)
(* other case.                                                             *)
(***************************************************************************)
C6_EmptyThreadRaises ==
    (op = "create_draft_reply" /\ status # "called") =>
        /\ ~HasLastMessage =>
              /\ status = "raised"
              /\ result = [error |-> "ValueError"]
              /\ drafts = <<>>
        /\ status = "raised" => (~HasLastMessage /\ drafts = <<>>)
        /\ status = "returned" => Len(drafts) = 1

\* create_draft_reply has raised on a thread with an empty message list.
C6_Witness ==
    /\ op = "create_draft_reply"
    /\ "messages" \in DOMAIN thread
    /\ thread.messages = <<>>
    /\ status = "raised"
    /\ drafts = <<>>

(***************************************************************************)
(* C7: the draft has an In-Reply-To header if and only if the Message-ID   *)
(* of the last message of the thread is not empty, and its value is that   *)
(* Message-ID; it has a References header if and only if the references    *)
(* value constructed is not empty; neither header has an empty value.      *)
(***************************************************************************)
C7_ThreadingHeaders ==
    Replied =>
        /\ Len(DraftHeaders("In-Reply-To")) = (IF OriginalMessageID # EmptyStr THEN 1 ELSE 0)
        /\ DraftValue("In-Reply-To") = OriginalMessageID
        /\ Len(DraftHeaders("References")) = (IF ExpectedTokens # <<>> THEN 1 ELSE 0)
        /\ \A i \in DOMAIN DraftHeaders("In-Reply-To") :
              DraftHeaders("In-Reply-To")[i].value # EmptyStr
        /\ \A i \in DOMAIN DraftHeaders("References") :
              DraftHeaders("References")[i].value # EmptyStr

\* A reply in a two-message thread to a message that has no Message-ID and
\* blank References: the draft has neither header.
C7_Witness ==
    /\ Replied
    /\ Len(thread.messages) = 2
    /\ OriginalMessageID = EmptyStr
    /\ OriginalReferences = vRefsBlank
    /\ DraftHeaders("In-Reply-To") = <<>>
    /\ DraftHeaders("References") = <<>>

(***************************************************************************)
(* C8: _get_header returns the value of the first header, in list order,   *)
(* whose name equals the name asked for without regard to case, and "" if  *)
(* there is none; the operations that use it return that value; and the    *)
(* header lists the backend holds are never modified.                      *)
(***************************************************************************)
\* "Cc", a name no header of the model carries.
sCc == <<"C", "c">>

LookupNames ==
    {sFrom, sSubject, sMessageID, sReferences, sDate, sCc,
     sFromUpper, sSubjectLower, sMessageIdMixed, sReferencesLower}

GetHeaderIsFirstMatch ==
    /\ (op = "create_draft_reply" /\ HasLastMessage) =>
          \A name \in LookupNames :
              GetHeader(LastHeaders, name) = FirstValue(LastHeaders, name)
    /\ Replied => DraftValue("To") = FirstValue(LastHeaders, sFrom)
    /\ Fetched =>
          /\ result[1].subject = FirstValue(unread[1].payload.headers, sSubject)
          /\ result[1].from = FirstValue(unread[1].payload.headers, sFrom)
          /\ result[1].date = FirstValue(unread[1].payload.headers, sDate)

C8_GetHeader ==
    /\ []GetHeaderIsFirstMatch
    /\ [][thread' = thread /\ unread' = unread]_vars

\* A reply to a message that has two Message-ID headers, spelled
\* "Message-Id": the first one's value is the In-Reply-To of the draft.
C8_Witness ==
    /\ Replied
    /\ Cardinality(Matching(LastHeaders, sMessageID)) = 2
    /\ \E i \in DOMAIN LastHeaders : LastHeaders[i].name = sMessageIdMixed
    /\ GetHeader(LastHeaders, sMessageIDLower) = vIdA
    /\ DraftValue("In-Reply-To") = vIdA

(***************************************************************************)
(* C9: for every email analysed, debug_email_filtering reports as "Is      *)
(* Promotional" whether some pattern of the vocabulary is a substring of   *)
(* the lower-cased sender address and, when some is, as "Matched Patterns" *)
(* all of them, in vocabulary order; "newsletter@shop.example.com" is      *)
(* flagged with "newsletter" among its patterns, "jane.doe@company.com" is *)
(* not flagged.                                                            *)
(***************************************************************************)
Debugged == op = "debug_email_filtering" /\ status = "returned"

ExpectedMatches(address) ==
    SelectSeq(Vocabulary, LAMBDA p : IsSubstring(p, Lower(address)))

\* The lines of the text returned that carry a label.
ResultLines(label) == SelectSeq(result, LAMBDA line : line[1] = label)

\* The emails analysed that have a matching pattern.
FlaggedEmails ==
    SelectSeq(analysed, LAMBDA e : ExpectedMatches(e.from) # <<>>)

====
